---- MODULE Spec2Model ----
(***************************************************************************)
(* The coordinate-pair reverser of AgentMaps: geojson_devutil.py and       *)
(* demos/geojson_devutil.py.  A text is a sequence of one-character        *)
(* strings.  The regular expression is run by a backtracking matcher, the  *)
(* way Python's re module runs it.                                         *)
(***************************************************************************)
EXTENDS Integers, Sequences, FiniteSets, TLC

VARIABLES
  x, y, z, phase,      \* the reverser as a function: input, one pass, two passes
  file,                \* the bytes of the file on disk
  fstate,              \* "ok", "missing" or "noperm": can the path be opened r+
  linesep,             \* the platform's line separator, what "\n" is written as
  variant,             \* "demo": demos/geojson_devutil.py, "diag": geojson_devutil.py
  pc,                  \* the statement to run next
  text,                \* the script's variable text
  cursor,              \* the stream position of the handle
  pending,             \* bytes written to the handle and not yet on disk
  printed,             \* what the script has printed
  err,                 \* the exception that ended the run, "" for none
  steps,               \* the statements run so far
  orig                 \* the file as the run found it

subVars == <<x, y, z, phase>>
runVars == <<file, fstate, linesep, variant, pc, text, cursor, pending, printed,
             err, steps, orig>>
vars == <<x, y, z, phase, file, fstate, linesep, variant, pc, text, cursor,
          pending, printed, err, steps, orig>>

(* ------------------------------------------------------------------ *)
(* Characters                                                          *)
(* ------------------------------------------------------------------ *)
LF == "\n"
CR == "\r"
Digit == {"0", "1", "2", "3", "4", "5", "6", "7", "8", "9"}

(* ------------------------------------------------------------------ *)
(* The compiled pattern  (-?[0-9]+\.[0-9]+),\n *(-?[0-9]+\.[0-9]+)     *)
(* one entry per quantified atom; max = 0 stands for "no upper limit"  *)
(* ------------------------------------------------------------------ *)
pattern ==
  << [cls |-> {"-"}, min |-> 0, max |-> 1],
     [cls |-> Digit, min |-> 1, max |-> 0],
     [cls |-> {"."}, min |-> 1, max |-> 1],
     [cls |-> Digit, min |-> 1, max |-> 0],
     [cls |-> {","}, min |-> 1, max |-> 1],
     [cls |-> {LF},  min |-> 1, max |-> 1],
     [cls |-> {" "}, min |-> 0, max |-> 0],
     [cls |-> {"-"}, min |-> 0, max |-> 1],
     [cls |-> Digit, min |-> 1, max |-> 0],
     [cls |-> {"."}, min |-> 1, max |-> 1],
     [cls |-> Digit, min |-> 1, max |-> 0] >>

(* the second group opened after its minus sign *)
GroupUnsigned == << <<1, 4>>, <<9, 11>> >>

(* capture groups: group g spans atoms Group[g][1] .. Group[g][2] *)
Group == << <<1, 4>>, <<8, 11>> >>

(* the template with the references in the order of the pattern *)
templateInOrder ==
  << [ref |-> 1, lit |-> ""], [ref |-> 0, lit |-> ","],
     [ref |-> 0, lit |-> LF], [ref |-> 2, lit |-> ""] >>

(* the replacement template  r"\2,\n\1" : group references and literals *)
template ==
  << [ref |-> 2, lit |-> ""], [ref |-> 0, lit |-> ","],
     [ref |-> 0, lit |-> LF], [ref |-> 1, lit |-> ""] >>

(* ------------------------------------------------------------------ *)
(* The backtracking matcher                                            *)
(* ------------------------------------------------------------------ *)
RECURSIVE Run(_, _, _)
(* how many consecutive characters of class cls the text holds from pos *)
Run(s, cls, pos) ==
  IF pos <= Len(s) /\ s[pos] \in cls THEN 1 + Run(s, cls, pos + 1) ELSE 0

RECURSIVE MatchFrom(_, _, _), Try(_, _, _, _)
(* atoms k.. of the pattern matched at pos: the start of every atom and   *)
(* the end of the match, or << >> when nothing matches                    *)
MatchFrom(s, k, pos) ==
  IF k > Len(pattern) THEN <<pos>>
  ELSE LET r == Run(s, pattern[k].cls, pos)
           n == IF pattern[k].max # 0 /\ r > pattern[k].max
                THEN pattern[k].max ELSE r
       IN  Try(s, k, pos, n)

(* greedy: the longest repetition first, one fewer on every failure *)
Try(s, k, pos, n) ==
  IF n < pattern[k].min THEN << >>
  ELSE LET rest == MatchFrom(s, k + 1, pos + n)
       IN  IF rest # << >> THEN <<pos>> \o rest ELSE Try(s, k, pos, n - 1)

NoMatch == [found |-> FALSE]

(* the match object of a successful match with atom boundaries b *)
MatchObject(s, b) ==
  [found |-> TRUE,
   start |-> b[1],
   end   |-> b[Len(b)],
   group |-> [g \in 1..Len(Group) |->
                SubSeq(s, b[Group[g][1]], b[Group[g][2] + 1] - 1)]]

(* pattern.match(s, pos): anchored at pos *)
MatchAt(s, pos) ==
  LET b == MatchFrom(s, 1, pos)
  IN  IF b = << >> THEN NoMatch ELSE MatchObject(s, b)

(* re.match(pattern, s): only at the beginning of the string *)
ReMatch(s) == MatchAt(s, 1)

RECURSIVE Search(_, _)
(* pattern.search(s, pos): the first position from pos on that matches *)
Search(s, pos) ==
  IF pos > Len(s) + 1 THEN NoMatch
  ELSE LET m == MatchAt(s, pos)
       IN  IF m.found THEN m ELSE Search(s, pos + 1)

RECURSIVE ExpandFirstGroup(_, _)
(* every group reference filled in from group 1 *)
ExpandFirstGroup(t, m) ==
  IF t = << >> THEN << >>
  ELSE (IF Head(t).ref # 0 THEN m.group[1] ELSE <<Head(t).lit>>)
       \o ExpandFirstGroup(Tail(t), m)

RECURSIVE Expand(_, _)
(* the template with the group references filled in from match m *)
Expand(t, m) ==
  IF t = << >> THEN << >>
  ELSE (IF Head(t).ref # 0 THEN m.group[Head(t).ref] ELSE <<Head(t).lit>>)
       \o Expand(Tail(t), m)

(* the scan going on at the second number of the match *)
ResumeAtSecond(m) == m.end - Len(m.group[2])

(* the scan going on one character after the match *)
ResumeSkipping(m) == m.end + 1

(* where the scan goes on after match m *)
Resume(m) == m.end

RECURSIVE SubFrom(_, _)
(* re.sub from position pos on: text up to the next match, its            *)
(* replacement, and the rest after the match                              *)
SubFrom(s, pos) ==
  LET m == Search(s, pos)
  IN  IF ~m.found THEN SubSeq(s, pos, Len(s))
      ELSE SubSeq(s, pos, m.start - 1) \o Expand(template, m)
           \o SubFrom(s, Resume(m))

(* re.sub(pattern, r"\2,\n\1", text) *)
Sub(s) == SubFrom(s, 1)

RECURSIVE FindAll(_, _)
(* the matches the scan of re.sub consumes, in order *)
FindAll(s, pos) ==
  LET m == Search(s, pos)
  IN  IF ~m.found THEN << >> ELSE <<m>> \o FindAll(s, m.end)

(* ------------------------------------------------------------------ *)
(* Texts: up to MaxPieces pieces, each from Pieces                     *)
(* ------------------------------------------------------------------ *)
MaxPieces == 4

Pieces ==
  { <<"1", ".", "2">>, <<",", LF>>, <<"-">>, <<" ">>, <<"7">>, <<".">>, <<"x">>,
    <<"5", ".", "6", ",", LF, "7", ".", "8">>,
    <<"3", ".", "4", ",", LF, " ", "9", ".", "0">> }

RECURSIVE Texts(_)
Texts(n) ==
  IF n = 0 THEN { << >> }
  ELSE LET T == Texts(n - 1)
       IN  T \cup { t \o p : t \in T, p \in Pieces }

(* ------------------------------------------------------------------ *)
(* The file and the handle                                             *)
(* ------------------------------------------------------------------ *)
(* a byte that the codec of the handle cannot decode *)
BAD == "?"

(* text mode, newline=None, on reading: \r\n and \r both come out as \n *)
RECURSIVE Decode(_)
Decode(b) ==
  IF b = << >> THEN << >>
  ELSE IF Head(b) = CR
       THEN <<LF>> \o Decode(IF Len(b) >= 2 /\ b[2] = LF
                             THEN Tail(Tail(b)) ELSE Tail(b))
       ELSE <<Head(b)>> \o Decode(Tail(b))

(* a byte the codec cannot decode makes read() raise *)
Undecodable(b) == \E k \in 1..Len(b) : b[k] = BAD

(* text mode, newline=None, on writing: \n goes out as the line separator *)
RECURSIVE Encode(_, _)
Encode(t, sep) ==
  IF t = << >> THEN << >>
  ELSE (IF Head(t) = LF THEN sep ELSE <<Head(t)>>) \o Encode(Tail(t), sep)

(* the bytes data put over file f from offset at on *)
Overwrite(f, at, data) ==
  SubSeq(f, 1, at) \o data \o SubSeq(f, at + Len(data) + 1, Len(f))

(* the disk once the pending bytes, written up to position p, are flushed *)
Flushed(f, p, pend) == Overwrite(f, p - Len(pend), pend)

TailLen == 100

(* text[-100:] *)
Last(t) == SubSeq(t, IF Len(t) > TailLen THEN Len(t) - TailLen + 1 ELSE 1, Len(t))

(* the literal of the pattern test:  "oijf43.435093,\n-9043.90345jkkh" *)
Sample ==
  << "o", "i", "j", "f", "4", "3", ".", "4", "3", "5", "0", "9", "3", ",", LF,
     "-", "9", "0", "4", "3", ".", "9", "0", "3", "4", "5", "j", "k", "k", "h" >>

MaxFilePieces == 3

FilePieces ==
  { <<"3", ".", "4", ",", LF, " ", "9", ".", "0">>,
    <<"5", ".", "6", ",", CR, LF, "7", ".", "8">>,
    <<"x">>, <<CR>>, <<LF>>, <<BAD>> }

RECURSIVE Files(_)
Files(n) ==
  IF n = 0 THEN { << >> }
  ELSE LET F == Files(n - 1)
       IN  F \cup { f \o p : f \in F, p \in FilePieces }

Idle ==
  /\ x = << >> /\ y = << >> /\ z = << >> /\ phase = "off"

Init ==
  /\ Idle
  /\ fstate \in {"ok", "missing", "noperm"}
  /\ file \in (IF fstate = "missing" THEN { << >> } ELSE Files(MaxFilePieces))
  /\ linesep \in { <<LF>>, <<CR, LF>> }
  /\ variant \in {"demo", "diag"}
  /\ pc = "open"
  /\ text = << >>
  /\ cursor = 0
  /\ pending = << >>
  /\ printed = << >>
  /\ err = ""
  /\ steps = << >>
  /\ orig = [state |-> fstate, content |-> file]

(* an exception leaves the with block: the handle, if open, is closed,    *)
(* which flushes what is pending                                          *)
Raise(e) ==
  /\ pc' = "failed"
  /\ err' = e
  /\ file' = Flushed(file, cursor, pending)
  /\ pending' = << >>

(* the file opened with mode "w+": created when missing, emptied otherwise *)
OpenCreating ==
  /\ pc = "open"
  /\ steps' = Append(steps, "open")
  /\ IF fstate = "noperm"
     THEN Raise("PermissionError") /\ UNCHANGED fstate
     ELSE /\ pc' = "read"
          /\ fstate' = "ok"
          /\ file' = << >>
          /\ UNCHANGED <<err, pending>>
  /\ cursor' = 0
  /\ UNCHANGED <<linesep, variant, text, printed, orig>>
  /\ UNCHANGED subVars

(* with open(name, "r+") as sample *)
Open ==
  /\ pc = "open"
  /\ steps' = Append(steps, "open")
  /\ IF fstate = "missing" THEN Raise("FileNotFoundError")
     ELSE IF fstate = "noperm" THEN Raise("PermissionError")
     ELSE pc' = "read" /\ UNCHANGED <<err, file, pending>>
  /\ cursor' = 0
  /\ UNCHANGED <<fstate, linesep, variant, text, printed, orig>>
  /\ UNCHANGED subVars

(* text = sample.read() *)
Read ==
  /\ pc = "read"
  /\ steps' = Append(steps, "read")
  /\ IF Undecodable(file)
     THEN Raise("UnicodeDecodeError") /\ UNCHANGED <<text, cursor>>
     ELSE /\ text' = Decode(file)
          /\ cursor' = Len(file)
          /\ pc' = IF variant = "diag" THEN "print1" ELSE "sub"
          /\ UNCHANGED <<err, file, pending>>
  /\ UNCHANGED <<fstate, linesep, variant, printed, orig>>
  /\ UNCHANGED subVars

(* print(text[-100:]), before and after the substitution *)
PrintTail ==
  /\ pc \in {"print1", "print2"}
  /\ steps' = Append(steps, "print")
  /\ printed' = Append(printed, [found |-> TRUE, shown |-> Last(text)])
  /\ pc' = IF pc = "print1" THEN "match" ELSE "seek"
  /\ UNCHANGED <<file, fstate, linesep, variant, text, cursor, pending, err, orig>>
  /\ UNCHANGED subVars

(* print(re.match(pattern, "oijf43.435093,\n-9043.90345jkkh")) *)
PrintMatch ==
  /\ pc = "match"
  /\ steps' = Append(steps, "match")
  /\ printed' = Append(printed,
       LET m == ReMatch(Sample)
       IN  [found |-> m.found,
            shown |-> IF m.found THEN SubSeq(Sample, m.start, m.end - 1)
                      ELSE << >>])
  /\ pc' = "sub"
  /\ UNCHANGED <<file, fstate, linesep, variant, text, cursor, pending, err, orig>>
  /\ UNCHANGED subVars

(* text = re.sub(pattern, r"\2,\n\1", text) *)
Substitute ==
  /\ pc = "sub"
  /\ steps' = Append(steps, "sub")
  /\ text' = Sub(text)
  /\ pc' = IF variant = "diag" THEN "print2" ELSE "seek"
  /\ UNCHANGED <<file, fstate, linesep, variant, cursor, pending, printed, err, orig>>
  /\ UNCHANGED subVars

(* the file cut to nothing before the write: sample.truncate(0) *)
SeekTruncating ==
  /\ pc = "seek"
  /\ steps' = Append(steps, "seek")
  /\ file' = << >>
  /\ pending' = << >>
  /\ cursor' = 0
  /\ pc' = "write"
  /\ UNCHANGED <<fstate, linesep, variant, text, printed, err, orig>>
  /\ UNCHANGED subVars

(* sample.seek(0) *)
Seek ==
  /\ pc = "seek"
  /\ steps' = Append(steps, "seek")
  /\ file' = Flushed(file, cursor, pending)
  /\ pending' = << >>
  /\ cursor' = 0
  /\ pc' = "write"
  /\ UNCHANGED <<fstate, linesep, variant, text, printed, err, orig>>
  /\ UNCHANGED subVars

(* sample.write(text): the bytes go to the handle's buffer, and reach the *)
(* disk now when they overflow it, later otherwise                        *)
Write ==
  /\ pc = "write"
  /\ steps' = Append(steps, "write")
  /\ LET data == Encode(text, linesep)
     IN  /\ cursor' = cursor + Len(data)
         /\ \/ /\ file' = Overwrite(file, cursor, data)
               /\ pending' = << >>
            \/ /\ data # << >>
               /\ pending' = data
               /\ file' = file
  /\ pc' = "truncate"
  /\ UNCHANGED <<fstate, linesep, variant, text, printed, err, orig>>
  /\ UNCHANGED subVars

(* the truncate left out: the pending bytes are flushed, the file not cut *)
TruncateNothing ==
  /\ pc = "truncate"
  /\ steps' = Append(steps, "truncate")
  /\ file' = Flushed(file, cursor, pending)
  /\ pending' = << >>
  /\ pc' = "close"
  /\ UNCHANGED <<fstate, linesep, variant, text, cursor, printed, err, orig>>
  /\ UNCHANGED subVars

(* sample.truncate(): flush, then cut the file at the stream position *)
Truncate ==
  /\ pc = "truncate"
  /\ steps' = Append(steps, "truncate")
  /\ file' = SubSeq(Flushed(file, cursor, pending), 1, cursor)
  /\ pending' = << >>
  /\ pc' = "close"
  /\ UNCHANGED <<fstate, linesep, variant, text, cursor, printed, err, orig>>
  /\ UNCHANGED subVars

(* the end of the with block: the handle is closed *)
Close ==
  /\ pc = "close"
  /\ steps' = Append(steps, "close")
  /\ file' = Flushed(file, cursor, pending)
  /\ pending' = << >>
  /\ pc' = "done"
  /\ UNCHANGED <<fstate, linesep, variant, text, cursor, printed, err, orig>>
  /\ UNCHANGED subVars

(* the run is interrupted between two statements of the with block *)
Interrupt ==
  /\ pc \in {"read", "print1", "match", "sub", "print2", "seek", "write", "truncate"}
  /\ Raise("KeyboardInterrupt")
  /\ UNCHANGED <<fstate, linesep, variant, text, cursor, printed, steps, orig>>
  /\ UNCHANGED subVars

Next ==
  \/ Open
  \/ Read
  \/ PrintTail
  \/ PrintMatch
  \/ Substitute
  \/ Seek
  \/ Write
  \/ Truncate
  \/ Close
  \/ Interrupt

Spec == Init /\ [][Next]_vars

(* ------------------------------------------------------------------ *)
(* The reverser as a function: one pass, then a second pass            *)
(* ------------------------------------------------------------------ *)
NoRun ==
  /\ file = << >> /\ fstate = "ok" /\ linesep = <<LF>> /\ variant = "demo"
  /\ pc = "off" /\ text = << >> /\ cursor = 0 /\ pending = << >>
  /\ printed = << >> /\ err = "" /\ steps = << >>
  /\ orig = [state |-> "ok", content |-> << >>]

InitSub ==
  /\ x \in Texts(MaxPieces)
  /\ y = << >>
  /\ z = << >>
  /\ phase = "in"
  /\ NoRun

(* text = re.sub(pattern, r"\2,\n\1", text) on the input *)
Once ==
  /\ phase = "in"
  /\ y' = Sub(x)
  /\ phase' = "once"
  /\ UNCHANGED <<x, z>>
  /\ UNCHANGED runVars

(* the same statement run on its own output *)
Twice ==
  /\ phase = "once"
  /\ z' = Sub(y)
  /\ phase' = "twice"
  /\ UNCHANGED <<x, y>>
  /\ UNCHANGED runVars

NextSub == Once

SpecSub == InitSub /\ [][NextSub]_vars

NextTwice == Once \/ Twice

SpecTwice == InitSub /\ [][NextTwice]_vars

(* ------------------------------------------------------------------ *)
(* The pattern read as a description of substrings                     *)
(* ------------------------------------------------------------------ *)
(* s[a .. b-1] is a decimal number: optional minus, digits, point, digits *)
IsDecimal(s, a, b) ==
  /\ 1 <= a /\ b <= Len(s) + 1
  /\ LET st == IF a <= Len(s) /\ s[a] = "-" THEN a + 1 ELSE a
     IN  \E d \in (st + 1)..(b - 2) :
           /\ s[d] = "."
           /\ \A j \in st..(b - 1) : j = d \/ s[j] \in Digit

(* the separators: a comma at c with a newline right after it *)
Seps(s) == { c \in 1..(Len(s) - 1) : s[c] = "," /\ s[c + 1] = LF }

AStarts(s, c) == { i \in 1..(c - 1) : IsDecimal(s, i, c) }

BStarts(s, c) ==
  { b \in (c + 2)..Len(s) : \A j \in (c + 2)..(b - 1) : s[j] = " " }

BEnds(s, b) == { e \in (b + 1)..(Len(s) + 1) : IsDecimal(s, b, e) }

(* every occurrence of  A , newline spaces B  in s: A is s[i..c-1], the   *)
(* comma is s[c], B is s[b..e-1]                                          *)
Occurrences(s) ==
  UNION { UNION { { [i |-> i, c |-> c, b |-> b, e |-> e] :
                      i \in AStarts(s, c), e \in BEnds(s, b) }
                  : b \in BStarts(s, c) }
          : c \in Seps(s) }

Min(S) == CHOOSE m \in S : \A n \in S : m <= n
Max(S) == CHOOSE m \in S : \A n \in S : m >= n

(* the leftmost of the occurrences O that starts at pos or later, its     *)
(* numbers taken as long as they go; a record with i = 0 when there is    *)
(* none                                                                   *)
LeftmostFrom(O, pos) ==
  LET P == { o \in O : o.i >= pos }
  IN  IF P = {} THEN [i |-> 0, c |-> 0, b |-> 0, e |-> 0]
      ELSE LET i0 == Min({ o.i : o \in P })
               e0 == Max({ o.e : o \in { o \in P : o.i = i0 } })
           IN  CHOOSE o \in P : o.i = i0 /\ o.e = e0

RECURSIVE ScanFrom(_, _)
ScanFrom(O, pos) ==
  LET o == LeftmostFrom(O, pos)
  IN  IF o.i = 0 THEN << >> ELSE <<o>> \o ScanFrom(O, o.e)

(* the occurrences of s that a left-to-right scan without overlaps        *)
(* selects, from pos on                                                   *)
Scan(s, pos) == ScanFrom(Occurrences(s), pos)

(* occurrence o with its two numbers exchanged: B , newline A *)
Swapped(s, o) ==
  SubSeq(s, o.b, o.e - 1) \o <<",", LF>> \o SubSeq(s, o.i, o.c - 1)

RECURSIVE Rewrite(_, _, _)
(* s from pos on with the selected occurrences os replaced *)
Rewrite(s, pos, os) ==
  IF os = << >> THEN SubSeq(s, pos, Len(s))
  ELSE SubSeq(s, pos, Head(os).i - 1) \o Swapped(s, Head(os))
       \o Rewrite(s, Head(os).e, Tail(os))

(* the spaces occurrence o holds before its second number *)
Spaces(o) == o.b - (o.c + 2)

RECURSIVE SumSpaces(_)
SumSpaces(os) == IF os = << >> THEN 0 ELSE Spaces(Head(os)) + SumSpaces(Tail(os))

(* C1: after one pass the output is the input with every occurrence that  *)
(* a left-to-right, leftmost-first scan without overlaps selects replaced *)
(* by B , newline A, the spaces before B dropped, the scan going on right *)
(* after the occurrence.                                                  *)
ThmC1 == phase = "once" => y = Rewrite(x, 1, Scan(x, 1))

(* a pass over a text that holds a pair with spaces and more text after it *)
WitC1 ==
  /\ phase = "once"
  /\ \E o \in Occurrences(x) : Spaces(o) > 0 /\ o.e <= Len(x)
  /\ y # x

(* t holds w at position p *)
HasAt(t, p, w) ==
  /\ 1 <= p /\ p + Len(w) - 1 <= Len(t)
  /\ SubSeq(t, p, p + Len(w) - 1) = w

RECURSIVE DroppedBefore(_, _)
(* the spaces dropped from the selected occurrences os that end by p *)
DroppedBefore(os, p) ==
  IF os = << >> THEN 0
  ELSE (IF Head(os).e <= p THEN Spaces(Head(os)) ELSE 0)
       + DroppedBefore(Tail(os), p)

(* occurrence o of s takes its two numbers whole: nothing of a number is  *)
(* left standing before A or after B                                      *)
WholeNumbers(s, o) ==
  /\ o.i = 1 \/ s[o.i - 1] \notin (Digit \cup {"-", "."})
  /\ o.e > Len(s) \/ s[o.e] \notin (Digit \cup {"."})

(* C2 as stated: every occurrence of  A , newline spaces B  in the input, *)
(* also one that shares a number with another pair, shows in the output   *)
(* as  B , newline A  at the corresponding position.  (Stated here for    *)
(* the occurrences that take whole numbers only.)                         *)
CexC2 ==
  phase = "once" =>
    \A o \in { o \in Occurrences(x) : WholeNumbers(x, o) } :
      HasAt(y, o.i - DroppedBefore(Scan(x, 1), o.i), Swapped(x, o))

(* C2 amended: every occurrence that the left-to-right scan without       *)
(* overlaps selects shows in the output as  B , newline A  at its         *)
(* position, moved left by the spaces dropped before it.                  *)
ThmC2 ==
  phase = "once" =>
    LET os == Scan(x, 1)
    IN  \A k \in 1..Len(os) :
          HasAt(y, os[k].i - SumSpaces(SubSeq(os, 1, k - 1)), Swapped(x, os[k]))

(* two pairs selected, the first one with spaces before its second number *)
WitC2 ==
  /\ phase = "once"
  /\ Len(Scan(x, 1)) >= 2
  /\ Spaces(Scan(x, 1)[1]) > 0

(* the text of match m of s *)
Matched(s, m) == SubSeq(s, m.start, m.end - 1)

(* no match of s holds spaces between the newline and its second number *)
NoSpacesInMatches(s) ==
  LET ms == FindAll(s, 1)
  IN  \A k \in 1..Len(ms) :
        Len(Matched(s, ms[k])) = Len(ms[k].group[1]) + Len(ms[k].group[2]) + 2

(* no match of s has a digit or a minus sign right before it *)
NoSignOrDigitBefore(s) ==
  LET ms == FindAll(s, 1)
  IN  \A k \in 1..Len(ms) :
        ms[k].start = 1 \/ s[ms[k].start - 1] \notin (Digit \cup {"-"})

Exchanged(s, mi, t, mo) ==
  /\ Len(mo) = Len(mi)
  /\ \A k \in 1..Len(mi) :
       /\ mo[k].group[1] = mi[k].group[2]
       /\ mo[k].group[2] = mi[k].group[1]
       /\ Matched(t, mo[k]) = mi[k].group[2] \o <<",", LF>> \o mi[k].group[1]

MatchSpaces(m) ==
  (m.end - m.start) - (Len(m.group[1]) + Len(m.group[2]) + 2)

RECURSIVE GapsKept(_, _, _, _, _)
(* the text of s outside the matches ms, from pos on, stands in t from q  *)
(* on, piece by piece, each replaced match in between taking the length   *)
(* of the match less its spaces                                           *)
GapsKept(s, pos, ms, t, q) ==
  IF ms = << >> THEN SubSeq(t, q, Len(t)) = SubSeq(s, pos, Len(s))
  ELSE LET m == Head(ms)
           g == m.start - pos
       IN  /\ q + g - 1 <= Len(t)
           /\ SubSeq(t, q, q + g - 1) = SubSeq(s, pos, m.start - 1)
           /\ GapsKept(s, m.end, Tail(ms), t,
                       q + g + (m.end - m.start) - MatchSpaces(m))

(* C5: the characters outside the matched spans are in the output as they *)
(* were and in the same order, and a text without a match comes back      *)
(* identical.                                                             *)
ThmC5 ==
  phase = "once" =>
    LET ms == FindAll(x, 1)
    IN  /\ GapsKept(x, 1, ms, y, 1)
        /\ (ms = << >> => y = x)

(* a match with spaces in it, text before it and text after it *)
WitC5 ==
  /\ phase = "once"
  /\ LET ms == FindAll(x, 1)
     IN  \E k \in 1..Len(ms) :
           ms[k].start > 1 /\ ms[k].end <= Len(x) /\ MatchSpaces(ms[k]) > 0

(* ------------------------------------------------------------------ *)
(* The run on a file                                                   *)
(* ------------------------------------------------------------------ *)
(* the text the run makes of the file it found *)
Transformed == Sub(Decode(orig.content))

(* the statements of the run so far, the prints left out *)
Work == SelectSeq(steps, LAMBDA st : st \notin {"print", "match"})

(* C6: a run on a file without a match leaves the file byte for byte as   *)
(* it was, carriage returns and line feeds included.                      *)
CexC6 ==
  (pc = "done" /\ FindAll(Decode(orig.content), 1) = << >>) =>
    file = orig.content

(* C7: after read, substitute, seek, write, truncate and close the file   *)
(* holds the transformed text, as the platform writes it, and nothing     *)
(* after it; read back it is the transformed text.                        *)
ThmC7 ==
  pc = "done" =>
    /\ Work = <<"open", "read", "sub", "seek", "write", "truncate", "close">>
    /\ file = Encode(Transformed, linesep)
    /\ Decode(file) = Transformed

(* a finished run whose transformed text is shorter than the original for *)
(* the spaces dropped                                                     *)
WitC7 ==
  /\ pc = "done"
  /\ Len(Transformed) < Len(Decode(orig.content))
  /\ Len(file) < Len(orig.content)

(* C8: a file that is missing, that cannot be opened for reading and      *)
(* writing, or that cannot be decoded ends the run at that statement,     *)
(* before any seek, write or truncate; no file is created and the content *)
(* stays as it was.                                                       *)
ThmC8 ==
  LET stopped == /\ pc = "failed"
                 /\ \A k \in 1..Len(steps) :
                      steps[k] \notin {"seek", "write", "truncate"}
                 /\ fstate = orig.state
                 /\ file = orig.content
                 /\ pending = << >>
  IN  /\ (orig.state = "missing" /\ pc # "open") =>
           (stopped /\ err = "FileNotFoundError")
      /\ (orig.state = "noperm" /\ pc # "open") =>
           (stopped /\ err = "PermissionError")
      /\ (orig.state = "ok" /\ Undecodable(orig.content)
            /\ pc \notin {"open", "read"}) =>
           (stopped /\ err \in {"UnicodeDecodeError", "KeyboardInterrupt"})
      /\ (pc = "failed" /\ err \in {"FileNotFoundError", "PermissionError",
                                    "UnicodeDecodeError"}) => stopped

(* a run ended by the read of a file that cannot be decoded *)
WitC8 ==
  /\ pc = "failed"
  /\ err = "UnicodeDecodeError"
  /\ Len(orig.content) > 1

(* the bytes d followed by what of o lies beyond their length *)
Mixed(o, d) == d \o SubSeq(o, Len(d) + 1, Len(o))

(* the file is the original, the written transformed text followed by the *)
(* end of the original, or the written transformed text                   *)
OneOfThree ==
  LET d == Encode(Transformed, linesep)
  IN  file \in { orig.content, Mixed(orig.content, d), d }

(* C9 as stated: at every point of a run the file is one of the three     *)
(* values, it is never empty and never shorter than the transformed text. *)
CexC9 ==
  /\ OneOfThree
  /\ file # << >>
  /\ Len(file) >= Len(Transformed)

(* C9 amended: at every point of a run the file is one of the three       *)
(* values; it is never shorter than the transformed text, and it is empty *)
(* only when the original file is empty.                                  *)
ThmC9 ==
  /\ OneOfThree
  /\ Len(file) >= Len(Transformed)
  /\ (file = << >> => orig.content = << >>)

(* after the write has reached the disk and before the truncate, the      *)
(* transformed text shorter than the original for the spaces dropped: the *)
(* file is the transformed text followed by the end of the original       *)
WitC9 ==
  /\ pc = "truncate"
  /\ pending = << >>
  /\ Len(Transformed) < Len(Decode(orig.content))
  /\ file # orig.content
  /\ file # Encode(Transformed, linesep)
  /\ file = Mixed(orig.content, Encode(Transformed, linesep))

(* the coordinate pair inside the sample literal *)
SamplePair == SubSeq(Sample, 5, 26)

(* C10: the pattern test of the diagnostic variant finds the pair inside  *)
(* the sample literal: what it prints is a match, 43.435093,\n-9043.90345 *)
CexC10 ==
  (variant = "diag" /\ Len(printed) >= 2) =>
    (printed[2].found /\ printed[2].shown = SamplePair)

====
